---- MODULE Spec2Model ----
(***************************************************************************)
(* NOARZ data layer: DataManager (backend selection and document          *)
(* accessors over localStorage) and GitHubAPI (file and document          *)
(* operations over the GitHub contents API).                              *)
(*                                                                         *)
(* JavaScript strings are sequences of UTF-16 code units, so that btoa,   *)
(* String.prototype.includes and JSON.stringify are computed on the       *)
(* characters the code handles.                                           *)
(***************************************************************************)
EXTENDS Integers, Sequences, FiniteSets

(***************************************************************************)
(* JavaScript values.  Each tag has its own payload field.                *)
(***************************************************************************)
Undefined == [t |-> "undefined"]
Null == [t |-> "null"]
Str(s) == [t |-> "string", s |-> s]
Bool(b) == [t |-> "boolean", b |-> b]
Num(n) == [t |-> "number", n |-> n]
Arr(items) == [t |-> "array", a |-> items]
\* an object literal: property names k[i] (code units) with values v[i], in order
Obj(keys, vals) == [t |-> "object", k |-> keys, v |-> vals]
\* a thrown exception / rejected promise
Throw(name, message) == [t |-> "throw", name |-> name, message |-> message]

IsThrow(x) == x.t = "throw"
\* ToBoolean, as used by if (x), !x, x || y and x ? a : b
Truthy(x) ==
    CASE x.t = "undefined" -> FALSE
      [] x.t = "null" -> FALSE
      [] x.t = "string" -> Len(x.s) > 0
      [] x.t = "boolean" -> x.b
      [] x.t = "number" -> x.n # 0
      [] OTHER -> TRUE
\* x || y
OrElse(x, y) == IF Truthy(x) THEN x ELSE y

\* obj.key: a TypeError on null and undefined, undefined when the property is missing
GetProp(obj, key) ==
    CASE obj.t \in {"null", "undefined"} -> Throw("TypeError", <<>>)
      [] obj.t = "object" ->
            IF \E i \in 1..Len(obj.k) : obj.k[i] = key
            THEN obj.v[CHOOSE i \in 1..Len(obj.k) : obj.k[i] = key]
            ELSE Undefined
      [] OTHER -> Undefined

(***************************************************************************)
(* String literals of the source, as code units.                          *)
(***************************************************************************)
\* 'id'
K_id == <<105, 100>>
\* 'title'
K_title == <<116, 105, 116, 108, 101>>
\* 'category'
K_category == <<99, 97, 116, 101, 103, 111, 114, 121>>
\* 'content'
K_content == <<99, 111, 110, 116, 101, 110, 116>>
\* 'coverImageUrl'
K_coverImageUrl == <<99, 111, 118, 101, 114, 73, 109, 97, 103, 101, 85, 114, 108>>
\* 'galleryImages'
K_galleryImages == <<103, 97, 108, 108, 101, 114, 121, 73, 109, 97, 103, 101, 115>>
\* 'date'
K_date == <<100, 97, 116, 101>>
\* 'edited'
K_edited == <<101, 100, 105, 116, 101, 100>>
\* 'siteTitle'
K_siteTitle == <<115, 105, 116, 101, 84, 105, 116, 108, 101>>
\* 'newsHeader'
K_newsHeader == <<110, 101, 119, 115, 72, 101, 97, 100, 101, 114>>
\* 'youtube'
K_youtube == <<121, 111, 117, 116, 117, 98, 101>>
\* 'discord'
K_discord == <<100, 105, 115, 99, 111, 114, 100>>
\* 'adminCode'
K_adminCode == <<97, 100, 109, 105, 110, 67, 111, 100, 101>>
\* 'NOARZ'
S_NOARZ == <<78, 79, 65, 82, 90>>
\* 'ðŸ“°MESSAGEðŸ“£'
S_newsHeader == <<240, 376, 8220, 176, 77, 69, 83, 83, 65, 71, 69, 240, 376, 8220, 163>>
\* 'https://www.youtube.com'
S_youtube == <<104, 116, 116, 112, 115, 58, 47, 47, 119, 119, 119, 46, 121, 111, 117, 116, 117, 98, 101, 46, 99, 111, 109>>
\* 'https://discord.com'
S_discord == <<104, 116, 116, 112, 115, 58, 47, 47, 100, 105, 115, 99, 111, 114, 100, 46, 99, 111, 109>>
\* '0988131688'
S_adminCode == <<48, 57, 56, 56, 49, 51, 49, 54, 56, 56>>
\* 'undefined'
S_undefined == <<117, 110, 100, 101, 102, 105, 110, 101, 100>>
\* 'null'
S_null == <<110, 117, 108, 108>>
\* '[object Object]'
S_objectObject == <<91, 111, 98, 106, 101, 99, 116, 32, 79, 98, 106, 101, 99, 116, 93>>
\* '404'
S_404 == <<52, 48, 52>>
\* 'GitHub API Error: '
S_ErrPrefix == <<71, 105, 116, 72, 117, 98, 32, 65, 80, 73, 32, 69, 114, 114, 111, 114, 58, 32>>
\* 'File not found: '
S_FileNotFound == <<70, 105, 108, 101, 32, 110, 111, 116, 32, 102, 111, 117, 110, 100, 58, 32>>
\* 'Update news items'
S_msgNews == <<85, 112, 100, 97, 116, 101, 32, 110, 101, 119, 115, 32, 105, 116, 101, 109, 115>>
\* 'Update site settings'
S_msgSite == <<85, 112, 100, 97, 116, 101, 32, 115, 105, 116, 101, 32, 115, 101, 116, 116, 105, 110, 103, 115>>
\* 'Update social media links'
S_msgSocial == <<85, 112, 100, 97, 116, 101, 32, 115, 111, 99, 105, 97, 108, 32, 109, 101, 100, 105, 97, 32, 108, 105, 110, 107, 115>>
\* 'Update admin settings'
S_msgAdmin == <<85, 112, 100, 97, 116, 101, 32, 97, 100, 109, 105, 110, 32, 115, 101, 116, 116, 105, 110, 103, 115>>
\* 'main'
S_main == <<109, 97, 105, 110>>
\* '1'
S_1 == <<49>>
\* '2'
S_2 == <<50>>
\* '3'
S_3 == <<51>>

(***************************************************************************)
(* String helpers.                                                         *)
(***************************************************************************)
\* String.prototype.includes
Includes(s, sub) ==
    \E i \in 1..(Len(s) - Len(sub) + 1) : SubSeq(s, i, i + Len(sub) - 1) = sub

RECURSIVE Digits(_)
\* the decimal digits of n, as in a template literal `${n}`
Digits(n) == IF n < 10 THEN <<48 + n>> ELSE Digits(n \div 10) \o <<48 + (n % 10)>>

RECURSIVE ToStr(_)
RECURSIVE JoinToStr(_, _)
\* Array.prototype.join(','), where null and undefined elements give ''
JoinToStr(a, i) ==
    IF i > Len(a) THEN <<>>
    ELSE (IF a[i].t \in {"null", "undefined"} THEN <<>> ELSE ToStr(a[i]))
         \o (IF i < Len(a) THEN <<44>> ELSE <<>>)
         \o JoinToStr(a, i + 1)
\* the ToStr conversion applied by localStorage.setItem, btoa, atob and JSON.parse
ToStr(x) ==
    CASE x.t = "string" -> x.s
      [] x.t = "undefined" -> S_undefined
      [] x.t = "null" -> S_null
      [] x.t = "boolean" -> IF x.b THEN <<116, 114, 117, 101>> ELSE <<102, 97, 108, 115, 101>>
      [] x.t = "number" -> Digits(x.n)
      [] x.t = "array" -> JoinToStr(x.a, 1)
      [] OTHER -> S_objectObject

(***************************************************************************)
(* JSON.stringify(value, null, gap) (gap = 0: JSON.stringify(value)).      *)
(***************************************************************************)
Spaces(n) == [i \in 1..n |-> 32]

RECURSIVE EscapeJSON(_)
\* QuoteJSONString's escapes for the quote, the backslash and the line feed
EscapeJSON(s) ==
    IF Len(s) = 0 THEN <<>>
    ELSE (CASE s[1] = 34 -> <<92, 34>>
            [] s[1] = 92 -> <<92, 92>>
            [] s[1] = 10 -> <<92, 110>>
            [] OTHER -> <<s[1]>>) \o EscapeJSON(Tail(s))
QuoteJSON(s) == <<34>> \o EscapeJSON(s) \o <<34>>

RECURSIVE Ser(_, _, _)
RECURSIVE SerItems(_, _, _, _)
RECURSIVE SerProps(_, _, _, _, _)
\* the separator between two members: ',' or ',\n' and the indentation
SerSep(gap, ind) == IF gap = 0 THEN <<44>> ELSE <<44, 10>> \o Spaces(ind)
\* array elements from index i on; undefined serialises as null inside an array
SerItems(a, gap, ind, i) ==
    IF i > Len(a) THEN <<>>
    ELSE (IF a[i].t = "undefined" THEN S_null ELSE Ser(a[i], gap, ind))
         \o (IF i < Len(a) THEN SerSep(gap, ind) ELSE <<>>)
         \o SerItems(a, gap, ind, i + 1)
\* object members from index i on; members whose value is undefined are left out
SerProps(k, v, gap, ind, i) ==
    IF i > Len(k) THEN <<>>
    ELSE IF v[i].t = "undefined" THEN SerProps(k, v, gap, ind, i + 1)
    ELSE QuoteJSON(k[i]) \o <<58>> \o (IF gap = 0 THEN <<>> ELSE <<32>>)
         \o Ser(v[i], gap, ind)
         \o (IF \E j \in (i + 1)..Len(k) : v[j].t # "undefined"
             THEN SerSep(gap, ind) ELSE <<>>)
         \o SerProps(k, v, gap, ind, i + 1)
\* SerializeJSONProperty for a value that is not undefined, at indentation ind
Ser(x, gap, ind) ==
    CASE x.t = "null" -> S_null
      [] x.t = "string" -> QuoteJSON(x.s)
      [] x.t \in {"boolean", "number"} -> ToStr(x)
      [] x.t = "array" ->
            IF Len(x.a) = 0 THEN <<91, 93>>
            ELSE IF gap = 0 THEN <<91>> \o SerItems(x.a, gap, ind, 1) \o <<93>>
            ELSE <<91, 10>> \o Spaces(ind + gap) \o SerItems(x.a, gap, ind + gap, 1)
                 \o <<10>> \o Spaces(ind) \o <<93>>
      [] x.t = "object" ->
            IF \A i \in 1..Len(x.k) : x.v[i].t = "undefined" THEN <<123, 125>>
            ELSE IF gap = 0 THEN <<123>> \o SerProps(x.k, x.v, gap, ind, 1) \o <<125>>
            ELSE <<123, 10>> \o Spaces(ind + gap) \o SerProps(x.k, x.v, gap, ind + gap, 1)
                 \o <<10>> \o Spaces(ind) \o <<125>>
\* JSON.stringify: undefined for undefined, else the text
JSONstringify(x, gap) == IF x.t = "undefined" THEN Undefined ELSE Str(Ser(x, gap, 0))

(***************************************************************************)
(* btoa and atob.                                                          *)
(***************************************************************************)
\* 'ABCDEFGHIJKLMNOPQRSTUVWXYZabcdefghijklmnopqrstuvwxyz0123456789+/'
B64Alphabet == <<65, 66, 67, 68, 69, 70, 71, 72, 73, 74, 75, 76, 77, 78, 79, 80, 81, 82, 83, 84, 85, 86, 87, 88, 89, 90, 97, 98, 99, 100, 101, 102, 103, 104, 105, 106, 107, 108, 109, 110, 111, 112, 113, 114, 115, 116, 117, 118, 119, 120, 121, 122, 48, 49, 50, 51, 52, 53, 54, 55, 56, 57, 43, 47>>
B64Char(n) == B64Alphabet[n + 1]
B64Index(c) == (CHOOSE i \in 1..Len(B64Alphabet) : B64Alphabet[i] = c) - 1
IsB64Char(c) == \E i \in 1..Len(B64Alphabet) : B64Alphabet[i] = c

RECURSIVE B64Encode(_)
\* base64 of a sequence of bytes, three bytes to four characters, '=' padded
B64Encode(b) ==
    IF Len(b) = 0 THEN <<>>
    ELSE IF Len(b) = 1
    THEN <<B64Char(b[1] \div 4), B64Char((b[1] % 4) * 16), 61, 61>>
    ELSE IF Len(b) = 2
    THEN <<B64Char(b[1] \div 4), B64Char((b[1] % 4) * 16 + b[2] \div 16),
           B64Char((b[2] % 16) * 4), 61>>
    ELSE <<B64Char(b[1] \div 4), B64Char((b[1] % 4) * 16 + b[2] \div 16),
           B64Char((b[2] % 16) * 4 + b[3] \div 64), B64Char(b[3] % 64)>>
         \o B64Encode(SubSeq(b, 4, Len(b)))

RECURSIVE B64Decode(_)
\* the bytes of unpadded base64 text whose length is not 1 modulo 4
B64Decode(s) ==
    IF Len(s) < 2 THEN <<>>
    ELSE LET n1 == B64Index(s[1])
             n2 == B64Index(s[2])
         IN  IF Len(s) = 2 THEN <<n1 * 4 + n2 \div 16>>
             ELSE LET n3 == B64Index(s[3])
                  IN  IF Len(s) = 3
                      THEN <<n1 * 4 + n2 \div 16, (n2 % 16) * 16 + n3 \div 4>>
                      ELSE <<n1 * 4 + n2 \div 16, (n2 % 16) * 16 + n3 \div 4,
                             (n3 % 4) * 64 + B64Index(s[4])>>
                           \o B64Decode(SubSeq(s, 5, Len(s)))

\* btoa(x): InvalidCharacterError when a code unit is above 0xFF
btoa(x) ==
    LET s == ToStr(x)
    IN  IF \E i \in 1..Len(s) : s[i] > 255
        THEN Throw("InvalidCharacterError", <<>>)
        ELSE Str(B64Encode(s))

\* atob(x): ASCII whitespace is removed, then up to two trailing '=' of a text whose
\* length is a multiple of 4; InvalidCharacterError on what is left malformed
atob(x) ==
    LET raw == ToStr(x)
        s == SelectSeq(raw, LAMBDA c : c \notin {9, 10, 12, 13, 32})
        n == Len(s)
        cut == IF n % 4 = 0 /\ n > 0 /\ s[n] = 61
               THEN (IF s[n - 1] = 61 THEN 2 ELSE 1)
               ELSE 0
        body == SubSeq(s, 1, n - cut)
    IN  IF Len(body) % 4 = 1 \/ \E i \in 1..Len(body) : ~IsB64Char(body[i])
        THEN Throw("InvalidCharacterError", <<>>)
        ELSE Str(B64Decode(body))

(***************************************************************************)
(* Document kinds, their accessors, paths, keys, commit messages, defaults.*)
(***************************************************************************)
Kinds == {"news", "site", "social", "admin"}
GetOps == {"getNewsItems", "getSiteSettings", "getSocialLinks", "getAdminSettings"}
SaveOps == {"saveNewsItems", "saveSiteSettings", "saveSocialLinks", "saveAdminSettings"}
FileOps == {"getFile", "saveFile", "deleteFile"}
KindOf(op) ==
    CASE op \in {"getNewsItems", "saveNewsItems"} -> "news"
      [] op \in {"getSiteSettings", "saveSiteSettings"} -> "site"
      [] op \in {"getSocialLinks", "saveSocialLinks"} -> "social"
      [] op \in {"getAdminSettings", "saveAdminSettings"} -> "admin"
      [] OTHER -> "none"
GetOpOf(kind) ==
    CASE kind = "news" -> "getNewsItems"
      [] kind = "site" -> "getSiteSettings"
      [] kind = "social" -> "getSocialLinks"
      [] kind = "admin" -> "getAdminSettings"
SaveOpOf(kind) ==
    CASE kind = "news" -> "saveNewsItems"
      [] kind = "site" -> "saveSiteSettings"
      [] kind = "social" -> "saveSocialLinks"
      [] kind = "admin" -> "saveAdminSettings"
\* the repository path of a kind's document
PathOf(kind) ==
    CASE kind = "news" -> "news.json"
      [] kind = "site" -> "settings.json"
      [] kind = "social" -> "social.json"
      [] kind = "admin" -> "admin.json"
      [] OTHER -> "none"
Paths == {PathOf(k) : k \in Kinds}
\* the characters of a path, for `File not found: ${path}`
PathChars(path) ==
    CASE path = "news.json" -> <<110, 101, 119, 115, 46, 106, 115, 111, 110>>
      [] path = "settings.json" -> <<115, 101, 116, 116, 105, 110, 103, 115, 46, 106, 115, 111, 110>>
      [] path = "social.json" -> <<115, 111, 99, 105, 97, 108, 46, 106, 115, 111, 110>>
      [] path = "admin.json" -> <<97, 100, 109, 105, 110, 46, 106, 115, 111, 110>>
      [] OTHER -> <<>>
\* the commit message of a kind's save accessor
MessageOf(kind) ==
    CASE kind = "news" -> S_msgNews
      [] kind = "site" -> S_msgSite
      [] kind = "social" -> S_msgSocial
      [] kind = "admin" -> S_msgAdmin
      [] OTHER -> <<>>
LocalKeys == {"jjkNews", "jjkSiteTitle", "jjkNewsHeader", "jjkSocialLinks", "jjkAdminCode"}
\* the localStorage keys of a kind
KeysOf(kind) ==
    CASE kind = "news" -> {"jjkNews"}
      [] kind = "site" -> {"jjkSiteTitle", "jjkNewsHeader"}
      [] kind = "social" -> {"jjkSocialLinks"}
      [] kind = "admin" -> {"jjkAdminCode"}

SocialDefault == Obj(<<K_youtube, K_discord>>, <<Str(S_youtube), Str(S_discord)>>)
AdminDefault == Obj(<<K_adminCode>>, <<Str(S_adminCode)>>)
\* what a GitHubAPI get accessor returns for an absent file and in its catch block
GitHubDefault(kind) ==
    CASE kind = "news" -> Arr(<<>>)
      [] kind = "site" -> Obj(<<>>, <<>>)
      [] kind = "social" -> SocialDefault
      [] kind = "admin" -> AdminDefault

\* Date.prototype.toISOString for midnight UTC of day d (1..9) of January 1970:
\* '1970-01-0d' then 'T00:00:00.000Z'
toISOString(d) == <<49, 57, 55, 48, 45, 48, 49, 45, 48>> \o <<48 + d>> \o <<84, 48, 48, 58, 48, 48, 58, 48, 48, 46, 48, 48, 48, 90>>

\* the three sample items, dated now (a day number), the day before and two days before
CreateSampleNewsData(now) == Arr(<<
    Obj(<<K_id, K_title, K_category, K_content, K_coverImageUrl, K_galleryImages,
          K_date, K_edited>>,
        <<Str(S_1),
          \* 'Welcome to NOARZ'
          Str(<<87, 101, 108, 99, 111, 109, 101, 32, 116, 111, 32, 78, 79, 65, 82, 90>>),
          \* 'roblox-script'
          Str(<<114, 111, 98, 108, 111, 120, 45, 115, 99, 114, 105, 112, 116>>),
          \* 'Welcome to our news platform! This is a sample post to show how the system works.'
          Str(<<87, 101, 108, 99, 111, 109, 101, 32, 116, 111, 32, 111, 117, 114, 32, 110, 101, 119, 115, 32, 112, 108, 97, 116, 102, 111, 114, 109, 33, 32, 84, 104, 105, 115, 32, 105, 115, 32, 97, 32, 115, 97, 109, 112, 108, 101, 32, 112, 111, 115, 116, 32, 116, 111, 32, 115, 104, 111, 119, 32, 104, 111, 119, 32, 116, 104, 101, 32, 115, 121, 115, 116, 101, 109, 32, 119, 111, 114, 107, 115, 46>>),
          \* 'https://i.imgur.com/IuN9n69.jpg'
          Str(<<104, 116, 116, 112, 115, 58, 47, 47, 105, 46, 105, 109, 103, 117, 114, 46, 99, 111, 109, 47, 73, 117, 78, 57, 110, 54, 57, 46, 106, 112, 103>>),
          \* 'https://i.imgur.com/IuN9n69.jpg', 'https://i.imgur.com/jCgYAFB.jpg'
          Arr(<<Str(<<104, 116, 116, 112, 115, 58, 47, 47, 105, 46, 105, 109, 103, 117, 114, 46, 99, 111, 109, 47, 73, 117, 78, 57, 110, 54, 57, 46, 106, 112, 103>>),
            Str(<<104, 116, 116, 112, 115, 58, 47, 47, 105, 46, 105, 109, 103, 117, 114, 46, 99, 111, 109, 47, 106, 67, 103, 89, 65, 70, 66, 46, 106, 112, 103>>)>>),
          Str(toISOString(now)),
          Null>>),
    Obj(<<K_id, K_title, K_category, K_content, K_coverImageUrl, K_galleryImages,
          K_date, K_edited>>,
        <<Str(S_2),
          \* 'New Features Coming Soon'
          Str(<<78, 101, 119, 32, 70, 101, 97, 116, 117, 114, 101, 115, 32, 67, 111, 109, 105, 110, 103, 32, 83, 111, 111, 110>>),
          \* 'runner'
          Str(<<114, 117, 110, 110, 101, 114>>),
          \* 'We are working on exciting new features for our platform. Stay tuned for updates!'
          Str(<<87, 101, 32, 97, 114, 101, 32, 119, 111, 114, 107, 105, 110, 103, 32, 111, 110, 32, 101, 120, 99, 105, 116, 105, 110, 103, 32, 110, 101, 119, 32, 102, 101, 97, 116, 117, 114, 101, 115, 32, 102, 111, 114, 32, 111, 117, 114, 32, 112, 108, 97, 116, 102, 111, 114, 109, 46, 32, 83, 116, 97, 121, 32, 116, 117, 110, 101, 100, 32, 102, 111, 114, 32, 117, 112, 100, 97, 116, 101, 115, 33>>),
          \* 'https://i.imgur.com/jCgYAFB.jpg'
          Str(<<104, 116, 116, 112, 115, 58, 47, 47, 105, 46, 105, 109, 103, 117, 114, 46, 99, 111, 109, 47, 106, 67, 103, 89, 65, 70, 66, 46, 106, 112, 103>>),
          \* 'https://i.imgur.com/jCgYAFB.jpg', 'https://i.imgur.com/UKQEMkT.jpg'
          Arr(<<Str(<<104, 116, 116, 112, 115, 58, 47, 47, 105, 46, 105, 109, 103, 117, 114, 46, 99, 111, 109, 47, 106, 67, 103, 89, 65, 70, 66, 46, 106, 112, 103>>),
            Str(<<104, 116, 116, 112, 115, 58, 47, 47, 105, 46, 105, 109, 103, 117, 114, 46, 99, 111, 109, 47, 85, 75, 81, 69, 77, 107, 84, 46, 106, 112, 103>>)>>),
          Str(toISOString(now - 1)),
          Null>>),
    Obj(<<K_id, K_title, K_category, K_content, K_coverImageUrl, K_galleryImages,
          K_date, K_edited>>,
        <<Str(S_3),
          \* 'How to Use the Admin Panel'
          Str(<<72, 111, 119, 32, 116, 111, 32, 85, 115, 101, 32, 116, 104, 101, 32, 65, 100, 109, 105, 110, 32, 80, 97, 110, 101, 108>>),
          \* 'roblox-script'
          Str(<<114, 111, 98, 108, 111, 120, 45, 115, 99, 114, 105, 112, 116>>),
          \* 'This guide explains how to use the admin panel to manage your news posts.'
          Str(<<84, 104, 105, 115, 32, 103, 117, 105, 100, 101, 32, 101, 120, 112, 108, 97, 105, 110, 115, 32, 104, 111, 119, 32, 116, 111, 32, 117, 115, 101, 32, 116, 104, 101, 32, 97, 100, 109, 105, 110, 32, 112, 97, 110, 101, 108, 32, 116, 111, 32, 109, 97, 110, 97, 103, 101, 32, 121, 111, 117, 114, 32, 110, 101, 119, 115, 32, 112, 111, 115, 116, 115, 46>>),
          \* 'https://i.imgur.com/UKQEMkT.jpg'
          Str(<<104, 116, 116, 112, 115, 58, 47, 47, 105, 46, 105, 109, 103, 117, 114, 46, 99, 111, 109, 47, 85, 75, 81, 69, 77, 107, 84, 46, 106, 112, 103>>),
          \* 'https://i.imgur.com/IuN9n69.jpg', 'https://i.imgur.com/jCgYAFB.jpg', 'https://i.imgur.com/UKQEMkT.jpg', 'https://i.imgur.com/YTKM8bR.jpg'
          Arr(<<Str(<<104, 116, 116, 112, 115, 58, 47, 47, 105, 46, 105, 109, 103, 117, 114, 46, 99, 111, 109, 47, 73, 117, 78, 57, 110, 54, 57, 46, 106, 112, 103>>),
            Str(<<104, 116, 116, 112, 115, 58, 47, 47, 105, 46, 105, 109, 103, 117, 114, 46, 99, 111, 109, 47, 106, 67, 103, 89, 65, 70, 66, 46, 106, 112, 103>>),
            Str(<<104, 116, 116, 112, 115, 58, 47, 47, 105, 46, 105, 109, 103, 117, 114, 46, 99, 111, 109, 47, 85, 75, 81, 69, 77, 107, 84, 46, 106, 112, 103>>),
            Str(<<104, 116, 116, 112, 115, 58, 47, 47, 105, 46, 105, 109, 103, 117, 114, 46, 99, 111, 109, 47, 89, 84, 75, 77, 56, 98, 82, 46, 106, 112, 103>>)>>),
          Str(toISOString(now - 2)),
          Null>>)>>)

(***************************************************************************)
(* The values the callers pass to the save accessors, and file contents.   *)
(***************************************************************************)
\* 'A', 'B'
S_A == <<65>>
S_B == <<66>>
NewsItemA == Obj(<<K_id, K_title>>, <<Str(S_1), Str(S_A)>>)
\* [], [{id:'1', title:'A'}], null, undefined
NewsValues == {Arr(<<>>), Arr(<<NewsItemA>>), Null, Undefined}
\* {siteTitle:'A', newsHeader:'B'}, {siteTitle:'', newsHeader:'B'}, the defaults, {siteTitle:'A'}
SiteValues ==
    {Obj(<<K_siteTitle, K_newsHeader>>, <<Str(S_A), Str(S_B)>>),
     Obj(<<K_siteTitle, K_newsHeader>>, <<Str(<<>>), Str(S_B)>>),
     Obj(<<K_siteTitle, K_newsHeader>>, <<Str(S_NOARZ), Str(S_newsHeader)>>),
     Obj(<<K_siteTitle>>, <<Str(S_A)>>)}
\* {youtube:'A', discord:'B'}, null
SocialValues == {Obj(<<K_youtube, K_discord>>, <<Str(S_A), Str(S_B)>>), Null}
\* {adminCode:'A'}, {adminCode:''}, undefined
AdminValues == {Obj(<<K_adminCode>>, <<Str(S_A)>>), Obj(<<K_adminCode>>, <<Str(<<>>)>>), Undefined}
DocValues(kind) ==
    CASE kind = "news" -> NewsValues
      [] kind = "site" -> SiteValues
      [] kind = "social" -> SocialValues
      [] kind = "admin" -> AdminValues
      [] OTHER -> {}

(***************************************************************************)
(* JSON.parse, over the documents above: the value whose JSON text the     *)
(* argument is, a SyntaxError for any other text.                          *)
(***************************************************************************)
JsonUniverse ==
    (UNION {DocValues(k) : k \in Kinds} \ {Undefined})
    \cup {GitHubDefault(k) : k \in Kinds}
JsonTable ==
    {<<Ser(x, 0, 0), x>> : x \in JsonUniverse} \cup {<<Ser(x, 2, 0), x>> : x \in JsonUniverse}
JSONparse(x) ==
    LET s == ToStr(x)
    IN  IF \E p \in JsonTable : p[1] = s
        THEN (CHOOSE p \in JsonTable : p[1] = s)[2]
        ELSE Throw("SyntaxError", <<>>)

(***************************************************************************)
(* The GitHub contents API, as GitHubAPI.makeRequest meets it through      *)
(* fetch: a request is answered from the repository's files, or fails.     *)
(***************************************************************************)
\* 'message'
K_message == <<109, 101, 115, 115, 97, 103, 101>>
\* 'sha'
K_sha == <<115, 104, 97>>
\* 'branch'
K_branch == <<98, 114, 97, 110, 99, 104>>
\* 'path'
K_path == <<112, 97, 116, 104>>
\* 'username'
K_username == <<117, 115, 101, 114, 110, 97, 109, 101>>
\* 'repoName'
K_repoName == <<114, 101, 112, 111, 78, 97, 109, 101>>
\* 'enabled'
K_enabled == <<101, 110, 97, 98, 108, 101, 100>>
\* 'status'
K_status == <<115, 116, 97, 116, 117, 115>>
\* 'ok'
K_ok == <<111, 107>>
\* 'Failed to fetch'
S_FailedToFetch == <<70, 97, 105, 108, 101, 100, 32, 116, 111, 32, 102, 101, 116, 99, 104>>
\* 'Not Found'
S_NotFound == <<78, 111, 116, 32, 70, 111, 117, 110, 100>>
\* 'Bad credentials'
S_BadCredentials == <<66, 97, 100, 32, 99, 114, 101, 100, 101, 110, 116, 105, 97, 108, 115>>
\* 'API rate limit exceeded for user ID 5404'
S_RateLimited == <<65, 80, 73, 32, 114, 97, 116, 101, 32, 108, 105, 109, 105, 116, 32, 101, 120, 99, 101, 101, 100, 101, 100, 32, 102, 111, 114, 32, 117, 115, 101, 114, 32, 73, 68, 32, 53, 52, 48, 52>>
\* 'Invalid request'
S_ShaMissing == <<73, 110, 118, 97, 108, 105, 100, 32, 114, 101, 113, 117, 101, 115, 116>>
\* 'does not match'
S_ShaMismatch == <<100, 111, 101, 115, 32, 110, 111, 116, 32, 109, 97, 116, 99, 104>>
\* 'Unauthorized'
S_Unauthorized == <<85, 110, 97, 117, 116, 104, 111, 114, 105, 122, 101, 100>>
\* 'Forbidden'
S_Forbidden == <<70, 111, 114, 98, 105, 100, 100, 101, 110>>
\* 'Unprocessable Entity'
S_Unprocessable == <<85, 110, 112, 114, 111, 99, 101, 115, 115, 97, 98, 108, 101, 32, 69, 110, 116, 105, 116, 121>>
\* 'Conflict'
S_Conflict == <<67, 111, 110, 102, 108, 105, 99, 116>>
\* 'OK'
S_OK == <<79, 75>>
\* 'Created'
S_Created == <<67, 114, 101, 97, 116, 101, 100>>

NoFile == [t |-> "nofile"]
File(content) == [t |-> "file", content |-> content]
\* the blob sha: a hash of the content, modelled collision-free and never empty
ShaOf(content) == Str(<<115>> \o content)

HttpResponse(status, statusText, json) ==
    [t |-> "response", ok |-> status \in 200..299, status |-> status,
     statusText |-> statusText, json |-> json]
ErrorBody(message) == Obj(<<K_message>>, <<Str(message)>>)

\* how a request can fail whatever the repository holds: fetch rejects (network),
\* 401 (bad credential), 403 (rate limit; the message names the user's numeric id)
Faults == {"none", "network", "401", "403"}
\* the probe can also find no such repository
ProbeFaults == Faults \cup {"404"}

\* the answer to one request and the files after it
RemoteReply(fs, req, fault) ==
    CASE fault = "network" ->
            [files |-> fs, resp |-> Throw("TypeError", S_FailedToFetch)]
      [] fault = "401" ->
            [files |-> fs, resp |-> HttpResponse(401, S_Unauthorized, ErrorBody(S_BadCredentials))]
      [] fault = "404" ->
            [files |-> fs, resp |-> HttpResponse(404, S_NotFound, ErrorBody(S_NotFound))]
      [] fault = "403" ->
            [files |-> fs, resp |-> HttpResponse(403, S_Forbidden, ErrorBody(S_RateLimited))]
      [] OTHER ->
         CASE req.ep = "repo" ->
                [files |-> fs, resp |-> HttpResponse(200, S_OK, Obj(<<>>, <<>>))]
           [] req.method = "GET" ->
                IF fs[req.path].t = "file"
                THEN [files |-> fs,
                      resp |-> HttpResponse(200, S_OK,
                                 Obj(<<K_content, K_sha, K_path>>,
                                     <<Str(B64Encode(fs[req.path].content) \o <<10>>),
                                       ShaOf(fs[req.path].content),
                                       Str(PathChars(req.path))>>))]
                ELSE [files |-> fs, resp |-> HttpResponse(404, S_NotFound, ErrorBody(S_NotFound))]
           [] req.method = "PUT" ->
                LET sha == GetProp(req.body, K_sha)
                    cur == fs[req.path]
                    new == atob(GetProp(req.body, K_content))
                IN  IF req.body.t # "object" \/ IsThrow(new)
                    THEN [files |-> fs,
                          resp |-> HttpResponse(422, S_Unprocessable, ErrorBody(S_ShaMissing))]
                    ELSE IF cur.t = "file" /\ sha.t = "undefined"
                    THEN [files |-> fs,
                          resp |-> HttpResponse(422, S_Unprocessable, ErrorBody(S_ShaMissing))]
                    ELSE IF (cur.t = "file" /\ sha # ShaOf(cur.content))
                            \/ (cur.t = "nofile" /\ sha.t # "undefined")
                    THEN [files |-> fs,
                          resp |-> HttpResponse(409, S_Conflict, ErrorBody(S_ShaMismatch))]
                    ELSE [files |-> [fs EXCEPT ![req.path] = File(new.s)],
                          resp |-> HttpResponse(IF cur.t = "file" THEN 200 ELSE 201,
                                                IF cur.t = "file" THEN S_OK ELSE S_Created,
                                                Obj(<<K_content>>,
                                                    <<Obj(<<K_sha>>, <<ShaOf(new.s)>>)>>))]
           [] req.method = "DELETE" ->
                LET cur == fs[req.path]
                IN  IF cur.t = "nofile"
                    THEN [files |-> fs,
                          resp |-> HttpResponse(404, S_NotFound, ErrorBody(S_NotFound))]
                    ELSE IF req.body.t # "object" \/ GetProp(req.body, K_sha).t = "undefined"
                    THEN [files |-> fs,
                          resp |-> HttpResponse(422, S_Unprocessable, ErrorBody(S_ShaMissing))]
                    ELSE IF GetProp(req.body, K_sha) # ShaOf(cur.content)
                    THEN [files |-> fs,
                          resp |-> HttpResponse(409, S_Conflict, ErrorBody(S_ShaMismatch))]
                    ELSE [files |-> [fs EXCEPT ![req.path] = NoFile],
                          resp |-> HttpResponse(200, S_OK, Obj(<<K_content>>, <<Null>>))]

(***************************************************************************)
(* GitHubAPI.                                                              *)
(***************************************************************************)
\* new GitHubAPI(token), then initialize's this.username and this.repoName
GitHubAPI(token, username, repoName) ==
    [t |-> "GitHubAPI", token |-> token, username |-> username, repoName |-> repoName]

\* makeRequest up to its fetch: the request sent.  ep is "repo" for
\* /repos/{username}/{repoName} and "contents" for .../contents/{path}.  The body is
\* the data object that JSON.stringify(data) puts on the wire, undefined when
\* options.body is not set.
makeRequest(api, ep, path, method, data) ==
    [method |-> method, ep |-> ep, path |-> path,
     username |-> api.username, repoName |-> api.repoName, auth |-> api.token,
     body |-> IF Truthy(data) /\ method \in {"POST", "PUT", "PATCH"}
              THEN data ELSE Undefined]

\* makeRequest after its fetch: what it returns, or the error it throws
makeRequestResult(resp, method) ==
    IF IsThrow(resp) THEN resp
    ELSE IF ~resp.ok
    THEN LET errorData == IF resp.json.t = "undefined" THEN Obj(<<>>, <<>>) ELSE resp.json
         IN  Throw("Error",
                   S_ErrPrefix \o Digits(resp.status) \o <<32>> \o resp.statusText
                   \o <<32, 45, 32>> \o ToStr(JSONstringify(errorData, 0)))
    ELSE IF method = "HEAD" \/ resp.status = 204
    THEN Obj(<<K_status, K_ok>>, <<Num(resp.status), Bool(resp.ok)>>)
    ELSE resp.json

\* getFile after makeRequest: the file, null, or the error rethrown
getFileResult(r) ==
    LET content == IF IsThrow(r) THEN r ELSE atob(GetProp(r, K_content))
    IN  IF IsThrow(content)
        THEN (IF Includes(content.message, S_404) THEN Null ELSE content)
        ELSE Obj(<<K_content, K_sha, K_path>>,
                 <<content, GetProp(r, K_sha), GetProp(r, K_path)>>)

saveFileData_NoSha(existingFile, encoded, message) ==
    Obj(<<K_message, K_content, K_branch>>, <<Str(message), encoded, Str(S_main)>>)
\* saveFile's request data: message, content and branch, and the sha when there is one
saveFileData(existingFile, encoded, message) ==
    LET sha == IF Truthy(existingFile) THEN GetProp(existingFile, K_sha) ELSE Null
    IN  IF Truthy(sha)
        THEN Obj(<<K_message, K_content, K_branch, K_sha>>,
                 <<Str(message), encoded, Str(S_main), sha>>)
        ELSE Obj(<<K_message, K_content, K_branch>>,
                 <<Str(message), encoded, Str(S_main)>>)

\* deleteFile's request data
deleteFileData(existingFile, message) ==
    Obj(<<K_message, K_sha, K_branch>>,
        <<Str(message), GetProp(existingFile, K_sha), Str(S_main)>>)

getDocResult_NoCatch(kind, file) ==
    IF IsThrow(file) THEN file
    ELSE IF Truthy(file) THEN JSONparse(GetProp(file, K_content))
    ELSE GitHubDefault(kind)
\* a get accessor after getFile: the decoded document, or the kind's default
getDocResult(kind, file) ==
    IF IsThrow(file) THEN GitHubDefault(kind)
    ELSE IF Truthy(file)
    THEN LET doc == JSONparse(GetProp(file, K_content))
         IN  IF IsThrow(doc) THEN GitHubDefault(kind) ELSE doc
    ELSE GitHubDefault(kind)

saveDocResult_AlwaysTrue(r) == Bool(TRUE)
\* a save accessor after saveFile: true, or false from its catch block
saveDocResult(r) == Bool(~IsThrow(r))

(***************************************************************************)
(* State.                                                                  *)
(***************************************************************************)
VARIABLES
    GITHUB_CONFIG,    \* window.GITHUB_CONFIG: undefined, or {username, repoName, enabled}
    github_token,     \* sessionStorage's 'github_token': null or a string
    GitHubAPIloaded,  \* whether window.GitHubAPI is defined
    githubApi,        \* DataManager.githubApi: null or the GitHubAPI in use
    isInitialized,    \* DataManager.isInitialized
    useGitHub,        \* DataManager.useGitHub
    initPromise,      \* DataManager.initPromise: null or a promise
    probing,          \* initialization runs awaiting the answer to their probe request
    initRuns,         \* how many times initialize's promise executor has run
    apisMade,         \* how many GitHubAPI objects DataManager has constructed
    probesSent,       \* how many probe requests have been sent
    tasks,            \* for each caller, the call it has in progress, with the requests
                      \* it has sent, their answers, and whether it began before
                      \* initialization had completed
    calls,            \* how many calls have been started
    prev,             \* the call that returned last
    files,            \* the repository's files, by path
    localStorage,     \* localStorage's items, by key
    fetches,          \* how many requests fetch has been given
    probeAnswer,      \* the answer to the probe request, undefined before it
    writtenBefore     \* in the race scenario, for each caller, the callers whose write
                      \* had been answered when the answer to its own get arrived

cfgVars == <<GITHUB_CONFIG, github_token, GitHubAPIloaded>>
dmVars == <<githubApi, isInitialized, useGitHub, initPromise, probing, initRuns, apisMade,
            probesSent, fetches, probeAnswer>>
vars == <<GITHUB_CONFIG, github_token, GitHubAPIloaded, githubApi, isInitialized, useGitHub,
          initPromise, probing, initRuns, apisMade, probesSent, tasks, calls, prev, files,
          localStorage, fetches, probeAnswer, writtenBefore>>

\* bounds
NumCallers == 2
MaxCalls == 3

Callers == 1..NumCallers
\* the days Date may report as today; the sample items reach two days back
Days == {3, 4}

Pending == [t |-> "promise", state |-> "pending", value |-> Undefined]
Fulfilled(value) == [t |-> "promise", state |-> "fulfilled", value |-> value]

\* a caller with no call in progress
Idle ==
    [pc |-> "idle", op |-> "none", waited |-> FALSE, api |-> Null, path |-> "none", arg |-> Undefined,
     content |-> Undefined, msg |-> <<>>, reqs |-> <<>>, resps |-> <<>>,
     backend |-> "none", res |-> Undefined]
Done(task, res) == [task EXCEPT !.pc = "done", !.res = res]

(***************************************************************************)
(* DataManager: the constructor and initialization.                        *)
(***************************************************************************)
\* constructor()
DataManagerInit ==
    /\ githubApi = Null
    /\ isInitialized = FALSE
    /\ useGitHub = FALSE
    /\ initPromise = Null
    /\ probing = 0
    /\ initRuns = 0
    /\ apisMade = 0
    /\ probesSent = 0
    /\ fetches = 0
    /\ probeAnswer = Undefined

\* the fallback: localStorage, resolve(true)
InitFallback ==
    /\ useGitHub' = FALSE
    /\ isInitialized' = TRUE
    /\ initPromise' = Fulfilled(Bool(TRUE))

InitCatch_NoResolve ==
    /\ useGitHub' = FALSE
    /\ isInitialized' = isInitialized
    /\ initPromise' = Pending
\* the catch block: localStorage, resolve(false)
InitCatch ==
    /\ useGitHub' = FALSE
    /\ isInitialized' = TRUE
    /\ initPromise' = Fulfilled(Bool(FALSE))

\* window.GITHUB_CONFIG && window.GITHUB_CONFIG.enabled
ConfigEnabled_Always == Truthy(GITHUB_CONFIG)
ConfigEnabled == Truthy(GITHUB_CONFIG) /\ Truthy(GetProp(GITHUB_CONFIG, K_enabled))

\* the promise executor up to its first await, and the assignment of initPromise
InitExecutor ==
    /\ initRuns' = initRuns + 1
    /\ UNCHANGED probeAnswer
    /\ IF ConfigEnabled
       THEN LET username == GetProp(GITHUB_CONFIG, K_username)
                repoName == GetProp(GITHUB_CONFIG, K_repoName)
                token == github_token
            IN  IF Truthy(username) /\ Truthy(repoName) /\ Truthy(token)
                THEN IF GitHubAPIloaded
                     THEN /\ githubApi' = GitHubAPI(token, username, repoName)
                          /\ apisMade' = apisMade + 1
                          /\ probesSent' = probesSent + 1
                          /\ fetches' = fetches + 1
                          /\ probing' = probing + 1
                          /\ initPromise' = Pending
                          /\ UNCHANGED <<isInitialized, useGitHub>>
                     ELSE /\ InitCatch
                          /\ UNCHANGED <<githubApi, apisMade, probesSent, probing, fetches>>
                ELSE /\ InitFallback
                     /\ UNCHANGED <<githubApi, apisMade, probesSent, probing, fetches>>
       ELSE /\ InitFallback
            /\ UNCHANGED <<githubApi, apisMade, probesSent, probing, fetches>>

initialize_NoMemo == InitExecutor
\* initialize(): the promise in progress if there is one, else a new run
initialize ==
    IF Truthy(initPromise) THEN UNCHANGED dmVars ELSE InitExecutor

ensureInitialized_Reinit == InitExecutor
\* _ensureInitialized()
ensureInitialized ==
    IF ~isInitialized THEN initialize ELSE UNCHANGED dmVars

InitAfterProbe_IgnoreFailure(resp) ==
    /\ probing' = probing - 1
    /\ probeAnswer' = resp
    /\ useGitHub' = TRUE
    /\ isInitialized' = TRUE
    /\ initPromise' = Fulfilled(Bool(TRUE))
    /\ UNCHANGED <<githubApi, initRuns, apisMade, probesSent, fetches>>
\* the executor after githubApi.initialize has its answer
InitAfterProbe(resp) ==
    LET success == ~IsThrow(makeRequestResult(resp, "GET"))
    IN  /\ probing' = probing - 1
        /\ probeAnswer' = resp
        /\ IF success
           THEN /\ useGitHub' = TRUE
                /\ isInitialized' = TRUE
                /\ initPromise' = Fulfilled(Bool(TRUE))
           ELSE InitFallback
        /\ UNCHANGED <<githubApi, initRuns, apisMade, probesSent, fetches>>

(***************************************************************************)
(* DataManager's accessors on localStorage.  Each gives the items after    *)
(* the call and what the call returns or throws.                           *)
(***************************************************************************)
getItem(ls, key) == ls[key]
setItem(ls, key, value) == [ls EXCEPT ![key] = Str(ToStr(value))]

\* the else branches of getNewsItems, getSiteSettings, getSocialLinks, getAdminSettings
LocalGet(kind, ls, now) ==
    CASE kind = "news" ->
            LET newsItems == JSONparse(getItem(ls, "jjkNews"))
            IN  IF IsThrow(newsItems) THEN newsItems
                ELSE IF ~Truthy(newsItems) THEN CreateSampleNewsData(now)
                ELSE newsItems
      [] kind = "site" ->
            Obj(<<K_siteTitle, K_newsHeader>>,
                <<OrElse(getItem(ls, "jjkSiteTitle"), Str(S_NOARZ)),
                  OrElse(getItem(ls, "jjkNewsHeader"), Str(S_newsHeader))>>)
      [] kind = "social" ->
            LET socialLinks == JSONparse(getItem(ls, "jjkSocialLinks"))
            IN  IF IsThrow(socialLinks) THEN socialLinks
                ELSE OrElse(socialLinks, SocialDefault)
      [] kind = "admin" ->
            Obj(<<K_adminCode>>, <<OrElse(getItem(ls, "jjkAdminCode"), Str(S_adminCode))>>)

\* the else branches of saveNewsItems, saveSiteSettings, saveSocialLinks, saveAdminSettings
LocalSave(kind, ls, value) ==
    CASE kind = "news" ->
            [ls |-> setItem(ls, "jjkNews", JSONstringify(value, 0)), res |-> Bool(TRUE)]
      [] kind = "site" ->
            LET siteTitle == GetProp(value, K_siteTitle)
            IN  IF IsThrow(siteTitle) THEN [ls |-> ls, res |-> siteTitle]
                ELSE [ls |-> setItem(setItem(ls, "jjkSiteTitle", siteTitle),
                                     "jjkNewsHeader", GetProp(value, K_newsHeader)),
                      res |-> Bool(TRUE)]
      [] kind = "social" ->
            [ls |-> setItem(ls, "jjkSocialLinks", JSONstringify(value, 0)), res |-> Bool(TRUE)]
      [] kind = "admin" ->
            LET adminCode == GetProp(value, K_adminCode)
            IN  IF IsThrow(adminCode) THEN [ls |-> ls, res |-> adminCode]
                ELSE [ls |-> setItem(ls, "jjkAdminCode", adminCode), res |-> Bool(TRUE)]

LocalCall_SeedsSample(op, ls, value, now) ==
    IF op = "getNewsItems" /\ ls["jjkNews"] = Null
    THEN [ls |-> setItem(ls, "jjkNews", JSONstringify(Arr(<<>>), 0)),
          res |-> CreateSampleNewsData(now)]
    ELSE IF op \in GetOps
    THEN [ls |-> ls, res |-> LocalGet(KindOf(op), ls, now)]
    ELSE LocalSave(KindOf(op), ls, value)
\* an accessor's else branch
LocalCall(op, ls, value, now) ==
    IF op \in GetOps
    THEN [ls |-> ls, res |-> LocalGet(KindOf(op), ls, now)]
    ELSE LocalSave(KindOf(op), ls, value)

(***************************************************************************)
(* GitHubAPI's operations, from one await to the next.                     *)
(***************************************************************************)
Send(task, pc, req) == [task EXCEPT !.pc = pc, !.reqs = Append(@, req)]
InFlight(task) == task.reqs[Len(task.reqs)]

\* a GitHubAPI method up to its first await: every one starts with getFile(path).
\* A save accessor has encoded its document with JSON.stringify(value, null, 2).
GitHubCall(task, api, op, path, content, message) ==
    Send([task EXCEPT !.api = api, !.path = path, !.content = content, !.msg = message,
                      !.backend = "github"],
         "get", makeRequest(api, "contents", path, "GET", Null))

\* a get or save accessor called on api
GitHubAccessor(task, api, op, value) ==
    LET kind == KindOf(op)
    IN  IF op \in GetOps
        THEN GitHubCall(task, api, op, PathOf(kind), Undefined, <<>>)
        ELSE GitHubCall(task, api, op, PathOf(kind), JSONstringify(value, 2), MessageOf(kind))

SaveFailed_Retry(task, e) ==
    IF Len(task.reqs) < 3
    THEN Send(task, "get", makeRequest(task.api, "contents", task.path, "GET", Null))
    ELSE Done(task, IF task.op = "saveFile" THEN e ELSE saveDocResult(e))
\* what a failed saveFile gives its caller
SaveFailed(task, e) == Done(task, IF task.op = "saveFile" THEN e ELSE saveDocResult(e))

\* the rest of saveFile after its getFile, up to the write request
saveFile(task, existingFile) ==
    LET encoded == btoa(task.content)
    IN  IF IsThrow(existingFile) THEN SaveFailed(task, existingFile)
        ELSE IF IsThrow(encoded) THEN SaveFailed(task, encoded)
        ELSE Send(task, "put",
                  makeRequest(task.api, "contents", task.path, "PUT",
                              saveFileData(existingFile, encoded, task.msg)))

deleteFile_NoExistenceCheck(task, existingFile) ==
    IF IsThrow(existingFile) THEN Done(task, existingFile)
    ELSE Send(task, "delete",
              makeRequest(task.api, "contents", task.path, "DELETE",
                          Obj(<<K_message, K_branch>>, <<Str(task.msg), Str(S_main)>>)))
\* the rest of deleteFile after its getFile, up to the delete request
deleteFile(task, existingFile) ==
    IF IsThrow(existingFile) THEN Done(task, existingFile)
    ELSE IF ~Truthy(existingFile)
    THEN Done(task, Throw("Error", S_FileNotFound \o PathChars(task.path)))
    ELSE Send(task, "delete",
              makeRequest(task.api, "contents", task.path, "DELETE",
                          deleteFileData(existingFile, task.msg)))

\* the call resumed with the answer to its request
Resume(task, resp) ==
    CASE task.pc = "get" ->
            LET file == getFileResult(makeRequestResult(resp, "GET"))
            IN  CASE task.op = "getFile" -> Done(task, file)
                  [] task.op \in GetOps -> Done(task, getDocResult(KindOf(task.op), file))
                  [] task.op = "deleteFile" -> deleteFile(task, file)
                  [] OTHER -> saveFile(task, file)
      [] task.pc = "put" ->
            LET r == makeRequestResult(resp, "PUT")
            IN  Done(task, IF task.op = "saveFile" THEN r ELSE saveDocResult(r))
      [] task.pc = "delete" -> Done(task, makeRequestResult(resp, "DELETE"))

(***************************************************************************)
(* Actions.                                                                *)
(***************************************************************************)
dmState == <<githubApi, isInitialized, useGitHub, initPromise, probing, initRuns, apisMade,
             probesSent, probeAnswer>>

Awaited_NoWait(task) == task.pc \in {"awaitEnsure", "awaitInit"}
\* whether the promise a suspended call awaits has been fulfilled
Awaited(task) ==
    IF task.pc = "awaitEnsure" THEN TRUE
    ELSE IF task.pc = "awaitInit"
    THEN initPromise.t = "promise" /\ initPromise.state = "fulfilled"
    ELSE FALSE

\* a caller calls dataManager.initialize() or an accessor: the call runs to its await
Call(c, op, value) ==
    /\ tasks[c].pc = "idle"
    /\ calls < MaxCalls
    /\ calls' = calls + 1
    /\ IF op = "initialize" THEN initialize ELSE ensureInitialized
    /\ tasks' = [tasks EXCEPT ![c] =
                    [Idle EXCEPT !.pc = IF op = "initialize" \/ ~isInitialized
                                        THEN "awaitInit" ELSE "awaitEnsure",
                                 !.waited = ~isInitialized,
                                 !.op = op, !.arg = value]]
    /\ UNCHANGED <<cfgVars, prev, writtenBefore, files, localStorage>>

\* the probe request is answered and the promise executor runs to its end
ProbeResponse(fault) ==
    /\ probing > 0
    /\ InitAfterProbe(
          RemoteReply(files, makeRequest(githubApi, "repo", "none", "GET", Null), fault).resp)
    /\ UNCHANGED <<cfgVars, tasks, calls, prev, writtenBefore, files, localStorage>>

\* a call resumes after its await of initialization: initialize() returns, an accessor
\* dispatches on useGitHub
Dispatch(c) ==
    LET task == tasks[c]
    IN  /\ Awaited(task)
        /\ IF task.op = "initialize"
           THEN /\ tasks' = [tasks EXCEPT ![c] = Done(task, initPromise.value)]
                /\ UNCHANGED <<localStorage, fetches>>
           ELSE IF useGitHub
           THEN /\ tasks' = [tasks EXCEPT ![c] =
                               IF githubApi = Null
                               THEN Done(task, Throw("TypeError", <<>>))
                               ELSE GitHubAccessor(task, githubApi, task.op, task.arg)]
                /\ fetches' = IF githubApi = Null THEN fetches ELSE fetches + 1
                /\ UNCHANGED localStorage
           ELSE /\ \E now \in Days :
                     LET r == LocalCall(task.op, localStorage, task.arg, now)
                     IN  /\ localStorage' = r.ls
                         /\ tasks' = [tasks EXCEPT ![c] =
                                         Done([task EXCEPT !.backend = "local"], r.res)]
                /\ UNCHANGED fetches
        /\ UNCHANGED <<cfgVars, dmState, calls, prev, writtenBefore, files>>

\* a caller calls getFile, saveFile, deleteFile or a save accessor on the GitHubAPI;
\* for a save accessor, content is the document encoded by JSON.stringify(value, null, 2)
CallFile(c, op, path, content, message) ==
    /\ tasks[c].pc = "idle"
    /\ calls < MaxCalls
    /\ githubApi # Null
    /\ calls' = calls + 1
    /\ tasks' = [tasks EXCEPT ![c] =
                    GitHubCall([Idle EXCEPT !.op = op], githubApi, op, path,
                               IF op \in {"getFile", "deleteFile"} THEN Undefined ELSE content,
                               IF op = "getFile" THEN <<>> ELSE message)]
    /\ fetches' = fetches + 1
    /\ UNCHANGED <<cfgVars, dmState, prev, writtenBefore, files, localStorage>>

\* the request a call awaits is answered (or fails) and the call resumes
Answer(c, fault) ==
    LET task == tasks[c]
    IN  /\ task.pc \in {"get", "put", "delete"}
        /\ LET reply == RemoteReply(files, InFlight(task), fault)
               next == Resume([task EXCEPT !.resps = Append(@, reply.resp)], reply.resp)
           IN  /\ files' = reply.files
               /\ tasks' = [tasks EXCEPT ![c] = next]
               /\ fetches' = fetches + Len(next.reqs) - Len(task.reqs)
        /\ UNCHANGED <<cfgVars, dmState, calls, prev, localStorage>>

Response(c, fault) == Answer(c, fault) /\ UNCHANGED writtenBefore

\* the same in the race scenario, where the order of answers is recorded
RaceResponse(c, fault) ==
    /\ Answer(c, fault)
    /\ writtenBefore' =
          IF tasks[c].pc = "get"
          THEN [writtenBefore EXCEPT
                  ![c] = {k \in Callers : tasks[k].pc = "done" /\ Len(tasks[k].resps) = 2}]
          ELSE writtenBefore

\* what is kept of a call after it has returned
Returned(task) ==
    [op |-> task.op, path |-> task.path, arg |-> task.arg, content |-> task.content,
     backend |-> task.backend, reqs |-> task.reqs, resps |-> task.resps, res |-> task.res]

\* the caller takes the call's result
Return(c) ==
    /\ tasks[c].pc = "done"
    /\ prev' = Returned(tasks[c])
    /\ tasks' = [tasks EXCEPT ![c] = Idle]
    /\ UNCHANGED <<cfgVars, dmVars, calls, files, localStorage, writtenBefore>>

\* GITHUB_CONFIG.setToken(token)
SetToken(token) ==
    /\ Truthy(GITHUB_CONFIG)
    /\ github_token' = IF Truthy(token) THEN token ELSE github_token
    /\ UNCHANGED <<GITHUB_CONFIG, GitHubAPIloaded, dmVars, tasks, calls, prev, writtenBefore, files,
                   localStorage>>

\* GITHUB_CONFIG.clearToken()
ClearToken ==
    /\ Truthy(GITHUB_CONFIG)
    /\ github_token' = Null
    /\ UNCHANGED <<GITHUB_CONFIG, GitHubAPIloaded, dmVars, tasks, calls, prev, writtenBefore, files,
                   localStorage>>

\* someone else commits to the repository
ExternalWrite(path, file) ==
    /\ files' = [files EXCEPT ![path] = file]
    /\ UNCHANGED <<cfgVars, dmVars, tasks, calls, prev, writtenBefore, localStorage>>

(***************************************************************************)
(* Initial states.                                                         *)
(***************************************************************************)
\* 'u', 'r', 't', 'm'
S_u == <<117>>
S_r == <<114>>
S_t == <<116>>
S_m == <<109>>
Config(username, repoName, enabled) ==
    Obj(<<K_username, K_repoName, K_enabled>>, <<Str(username), Str(repoName), Bool(enabled)>>)
\* no configuration, or one with each field empty or not
Configs ==
    {Undefined} \cup {Config(u, r, e) : u \in {<<>>, S_u}, r \in {<<>>, S_r}, e \in BOOLEAN}
Tokens == {Null, Str(S_t)}
NoCall == Returned(Idle)

\* the page has loaded: window.dataManager = new DataManager(), nothing stored
Init ==
    /\ GITHUB_CONFIG \in Configs
    /\ github_token \in Tokens
    /\ GitHubAPIloaded \in BOOLEAN
    /\ DataManagerInit
    /\ tasks = [c \in Callers |-> Idle]
    /\ calls = 0
    /\ prev = NoCall
    /\ writtenBefore = [c \in Callers |-> {}]
    /\ files = [p \in Paths |-> NoFile]
    /\ localStorage = [k \in LocalKeys |-> Null]

\* the calls of the selection scenario: initialize, and the news accessors; a request
\* of an accessor is answered by the repository or fails in the network
SelOps == {"initialize", "getNewsItems", "saveNewsItems"}
SelValues(op) == IF op \in SaveOps THEN {Arr(<<NewsItemA>>)} ELSE {Undefined}

Next ==
    \/ \E c \in Callers : \E op \in SelOps : \E v \in SelValues(op) : Call(c, op, v)
    \/ \E fault \in ProbeFaults : ProbeResponse(fault)
    \/ \E c \in Callers : Dispatch(c)
    \/ \E c \in Callers : \E fault \in {"none", "network"} : Response(c, fault)
    \/ \E token \in Tokens : SetToken(token)
    \/ ClearToken

Spec == Init /\ [][Next]_vars

\* Initialization alone: the calls up to the request or the localStorage access they
\* are dispatched to, the token staying as it was when the page loaded.  The probe
\* request is eventually answered (or fails) and a call whose awaited promise is
\* fulfilled is eventually resumed by the event loop.
NextLive ==
    \/ \E c \in Callers : \E op \in SelOps : \E v \in SelValues(op) : Call(c, op, v)
    \/ \E fault \in ProbeFaults : ProbeResponse(fault)
    \/ \E c \in Callers : Dispatch(c)

SpecLive ==
    /\ Init /\ [][NextLive]_vars
    /\ WF_vars(\E fault \in ProbeFaults : ProbeResponse(fault))
    /\ \A c \in Callers : WF_vars(Dispatch(c))

(***************************************************************************)
(* The file-level scenario: the API test page's GitHubAPI, made with a     *)
(* token and initialized, on which a caller runs getFile, saveFile and     *)
(* deleteFile, one call after the other, while others commit to the        *)
(* repository.                                                             *)
(***************************************************************************)
FilePaths == {"news.json"}
\* 'A', 'B' and a left double quotation mark (U+201C)
SavedContents == {Str(S_A), Str(S_B), Str(<<8220>>)}
StoredFiles == {NoFile, File(S_A), File(S_B)}

InitFile ==
    /\ GITHUB_CONFIG = Config(S_u, S_r, TRUE)
    /\ github_token = Str(S_t)
    /\ GitHubAPIloaded = TRUE
    /\ githubApi = GitHubAPI(Str(S_t), Str(S_u), Str(S_r))
    /\ isInitialized = FALSE
    /\ useGitHub = FALSE
    /\ initPromise = Null
    /\ probing = 0
    /\ initRuns = 0
    /\ apisMade = 0
    /\ probesSent = 0
    /\ fetches = 0
    /\ probeAnswer = Undefined
    /\ tasks = [c \in Callers |-> Idle]
    /\ calls = 0
    /\ prev = NoCall
    /\ writtenBefore = [c \in Callers |-> {}]
    /\ \E f \in StoredFiles : files = [p \in Paths |-> IF p \in FilePaths THEN f ELSE NoFile]
    /\ localStorage = [k \in LocalKeys |-> Null]

NextFile ==
    \/ \E op \in FileOps : \E path \in FilePaths : \E content \in SavedContents :
          CallFile(1, op, path, content, S_m)
    \/ \E fault \in Faults : Response(1, fault)
    \/ Return(1)
    \/ \E path \in FilePaths : \E f \in StoredFiles : ExternalWrite(path, f)

SpecFile == InitFile /\ [][NextFile]_vars

(***************************************************************************)
(* The race scenario: two callers save to the same file, with saveFile or *)
(* with saveNewsItems, while another writer may change it.                 *)
(***************************************************************************)
NextRace ==
    \/ \E c \in {1, 2} : \E content \in {Str(S_A), Str(S_B)} :
          CallFile(c, "saveFile", "news.json", content, S_m)
    \/ \E c \in {1, 2} :
          CallFile(c, "saveNewsItems", "news.json", JSONstringify(Arr(<<>>), 2), S_msgNews)
    \/ \E c \in {1, 2} : \E fault \in {"none", "403"} : RaceResponse(c, fault)
    \/ \E f \in StoredFiles : ExternalWrite("news.json", f)

SpecRace == InitFile /\ [][NextRace]_vars

(***************************************************************************)
(* The document scenario: one caller uses the accessors of one document    *)
(* kind, one call after the other, on whichever backend is selected.       *)
(***************************************************************************)
DocArgs(op) == IF op \in SaveOps THEN DocValues(KindOf(op)) ELSE {Undefined}
\* the caller stays with the kind of its first call
SameKind(op) == prev.op = "none" \/ KindOf(prev.op) = KindOf(op)

InitDoc ==
    /\ GITHUB_CONFIG \in {Undefined, Config(S_u, S_r, TRUE)}
    /\ github_token = Str(S_t)
    /\ GitHubAPIloaded = TRUE
    /\ DataManagerInit
    /\ tasks = [c \in Callers |-> Idle]
    /\ calls = 0
    /\ prev = NoCall
    /\ writtenBefore = [c \in Callers |-> {}]
    /\ files = [p \in Paths |-> NoFile]
    /\ localStorage = [k \in LocalKeys |-> Null]

NextDoc ==
    \/ \E op \in GetOps \cup SaveOps : \E v \in DocArgs(op) : SameKind(op) /\ Call(1, op, v)
    \/ \E fault \in ProbeFaults : ProbeResponse(fault)
    \/ Dispatch(1)
    \/ \E fault \in Faults : Response(1, fault)
    \/ Return(1)

SpecDoc == InitDoc /\ [][NextDoc]_vars

(***************************************************************************)
(* Properties of initialization and backend selection (Spec).              *)
(***************************************************************************)
InitFulfilled == initPromise.t = "promise" /\ initPromise.state = "fulfilled"
LocalSelected == ~useGitHub /\ isInitialized /\ InitFulfilled
SelectedBackend == IF useGitHub THEN "github" ELSE "local"
Failed(resp) == IF IsThrow(resp) THEN TRUE ELSE ~resp.ok

\* C1: however many initialize() and accessor calls are started before initialization
\* has completed, the promise executor runs once, at most one GitHubAPI is constructed
\* and at most one probe request is sent; every call is served by the one selected
\* backend and every initialize() call gets the one promise's value.
C1_SingleInitialization ==
    /\ initRuns <= 1 /\ apisMade <= 1 /\ probesSent <= 1
    /\ calls > 0 => initRuns = 1
    /\ \A c \in Callers :
          /\ tasks[c].backend # "none" => tasks[c].backend = SelectedBackend
          /\ (tasks[c].op = "initialize" /\ tasks[c].pc = "done")
                => tasks[c].res = initPromise.value
    /\ \A c, d \in Callers :
          (tasks[c].backend # "none" /\ tasks[d].backend # "none")
             => tasks[c].backend = tasks[d].backend

\* two calls that both began before initialization had completed have both been served
\* by the GitHub backend, after one probe
C1_Witness ==
    \E c, d \in Callers :
        /\ c # d
        /\ tasks[c].waited /\ tasks[d].waited
        /\ tasks[c].backend = "github" /\ tasks[d].backend = "github"
        /\ probesSent = 1

C2_Step ==
    /\ (/\ initRuns' > initRuns
        /\ \/ ~Truthy(GITHUB_CONFIG)
           \/ /\ ConfigEnabled
              /\ \/ ~Truthy(GetProp(GITHUB_CONFIG, K_username))
                 \/ ~Truthy(GetProp(GITHUB_CONFIG, K_repoName))
                 \/ ~Truthy(github_token)
                 \/ ~GitHubAPIloaded)
       => LocalSelected'
    /\ (probing' < probing /\ Failed(probeAnswer')) => LocalSelected'
    /\ \A c \in Callers :
          (tasks'[c].op = "initialize" /\ tasks'[c].pc = "done")
             => tasks'[c].res \in {Bool(TRUE), Bool(FALSE)}
\* C2: a run of initialization that finds no configuration, or an enabled one with an
\* empty username, repoName or token, or that throws (window.GitHubAPI missing), or whose
\* probe fails, ends with the local backend selected (useGitHub false, isInitialized
\* true) and its promise fulfilled; initialize() never gives its caller an exception.
C2_FallsBackToLocal == [][C2_Step]_vars

\* the probe was sent, fetch rejected, and the local backend is selected
C2_Witness == probesSent = 1 /\ IsThrow(probeAnswer) /\ LocalSelected

\* C3: with enabled=false in the configuration, whatever username, repoName and token
\* are, no request is ever given to fetch, GitHub is never selected, and once
\* initialization has run the local backend is selected.
C3_DisabledNoNetwork ==
    (Truthy(GITHUB_CONFIG) /\ ~Truthy(GetProp(GITHUB_CONFIG, K_enabled)))
       => /\ fetches = 0 /\ probesSent = 0 /\ apisMade = 0
          /\ ~useGitHub
          /\ initRuns > 0 => LocalSelected

\* enabled=false with username, repoName and token all set: a call has been served from
\* localStorage
C3_Witness ==
    /\ GITHUB_CONFIG = Config(S_u, S_r, FALSE)
    /\ Truthy(github_token)
    /\ LocalSelected
    /\ \E c \in Callers : tasks[c].pc = "done" /\ tasks[c].backend = "local"

\* Uninitialized, Initializing, then Remote or Local
SelectorRank == IF isInitialized THEN 2 ELSE IF Truthy(initPromise) THEN 1 ELSE 0
C4_Step ==
    /\ SelectorRank' >= SelectorRank
    /\ isInitialized =>
          /\ isInitialized'
          /\ useGitHub' = useGitHub
          /\ initPromise' = initPromise
          /\ githubApi' = githubApi
          /\ initRuns' = initRuns /\ probesSent' = probesSent /\ probing' = probing
\* C4: the selector never moves back, and once isInitialized is true no call and no
\* change of the token changes useGitHub, isInitialized, initPromise or githubApi, or
\* runs the executor or the probe again.
C4_SelectionIsFinal == [][C4_Step]_vars

\* GitHub was selected, the token has since been cleared, and a call begun after
\* initialization has been served by GitHub
C4_Witness ==
    /\ isInitialized /\ useGitHub
    /\ github_token = Null
    /\ \E c \in Callers : ~tasks[c].waited /\ tasks[c].backend = "github"

(***************************************************************************)
(* Properties of the accessors and of GitHubAPI's file operations          *)
(* (SpecDoc, SpecFile).                                                    *)
(***************************************************************************)
\* a document of the kind's shape: a list for news, a record with the kind's keys
WellFormed(kind, v) ==
    CASE kind = "news" -> v.t = "array"
      [] kind = "site" -> v.t = "object" /\ v.k = <<K_siteTitle, K_newsHeader>>
      [] kind = "social" -> v.t = "object" /\ v.k = <<K_youtube, K_discord>>
      [] kind = "admin" -> v.t = "object" /\ v.k = <<K_adminCode>>
\* every request of the call was answered by the repository itself
Unfaulted(call) ==
    \A i \in 1..Len(call.resps) :
        IF IsThrow(call.resps[i]) THEN FALSE ELSE call.resps[i].status \notin {401, 403}
NotFound(resp) == IF IsThrow(resp) THEN FALSE ELSE resp.status = 404

\* C5: a get accessor called right after the save accessor of the same kind, on the
\* same backend, returns a value equal to the one saved.  Stated here for well-formed
\* documents and calls none of whose requests was failed by the network, a bad
\* credential or a rate limit.
C5_RoundTrip ==
    LET task == tasks[1]
    IN  (/\ task.pc = "done" /\ task.op \in GetOps
         /\ prev.op = SaveOpOf(KindOf(task.op))
         /\ WellFormed(KindOf(task.op), prev.arg)
         /\ prev.backend = task.backend
         /\ Unfaulted(prev) /\ Unfaulted(task))
        => task.res = prev.arg

\* C6: getFile returns null when the answer to its request is 404 Not Found, throws
\* for every other failed request, and so returns null for no other failure.
C6_AbsentOnlyOnNotFound ==
    LET task == tasks[1]
    IN  (task.pc = "done" /\ task.op = "getFile")
        => /\ NotFound(task.resps[1]) => task.res = Null
           /\ (Failed(task.resps[1]) /\ ~NotFound(task.resps[1])) => IsThrow(task.res)

\* C7: a deleteFile whose getFile was answered 404 Not Found has thrown
\* 'File not found: <path>' and has sent that one GET request and nothing else.
C7_DeleteMissingFile ==
    LET task == tasks[1]
    IN  (task.op = "deleteFile" /\ Len(task.resps) >= 1 /\ NotFound(task.resps[1]))
        => /\ task.pc = "done"
           /\ task.res = Throw("Error", S_FileNotFound \o PathChars(task.path))
           /\ Len(task.reqs) = 1
           /\ task.reqs[1].method = "GET" /\ task.reqs[1].path = task.path

\* deleteFile('news.json', ...) has failed with the not-found error
C7_Witness ==
    /\ tasks[1].op = "deleteFile" /\ tasks[1].pc = "done"
    /\ NotFound(tasks[1].resps[1])
    /\ tasks[1].res = Throw("Error", S_FileNotFound \o PathChars("news.json"))

\* C8: the second request of a deleteFile is a DELETE of the same path that carries
\* the sha its getFile returned, the commit message and the branch.
C8_DeleteCarriesSha ==
    LET task == tasks[1]
    IN  (task.op = "deleteFile" /\ Len(task.reqs) = 2)
        => /\ task.reqs[2].method = "DELETE" /\ task.reqs[2].path = task.path
           /\ GetProp(task.reqs[2].body, K_sha) = GetProp(task.resps[1].json, K_sha)
           /\ GetProp(task.reqs[2].body, K_message) = Str(task.msg)
           /\ GetProp(task.reqs[2].body, K_branch) = Str(S_main)

\* C9: a saveFile sends its PUT only as its second request, after the GET of the same
\* path; the PUT carries the sha of the file the GET found, and no sha property when
\* getFile returned null.
C9_SaveCarriesDiscoveredSha ==
    LET task == tasks[1]
    IN  task.op = "saveFile"
        => /\ \A i \in 1..Len(task.reqs) :
                 task.reqs[i].method = "PUT"
                    => /\ i = 2
                       /\ task.reqs[1].method = "GET"
                       /\ task.reqs[1].path = task.path /\ task.reqs[2].path = task.path
           /\ Len(task.reqs) = 2
                 => LET found == getFileResult(makeRequestResult(task.resps[1], "GET"))
                        body == task.reqs[2].body
                    IN  /\ task.reqs[2].method = "PUT"
                        /\ ~Failed(task.resps[1])
                              => /\ GetProp(body, K_sha) = GetProp(task.resps[1].json, K_sha)
                                 /\ GetProp(body, K_sha).t = "string"
                        /\ found = Null
                              => /\ body.t = "object"
                                 /\ \A i \in 1..Len(body.k) : body.k[i] # K_sha

\* a saveFile over an existing file is waiting for the answer to its PUT, which
\* carries the file's sha
C9_Witness ==
    /\ tasks[1].op = "saveFile" /\ tasks[1].pc = "put"
    /\ files["news.json"] = File(S_A)
    /\ GetProp(tasks[1].reqs[2].body, K_sha) = ShaOf(S_A)

\* the stored content that getFile returned does not parse as JSON
Undecodable(resp) ==
    IF Failed(resp) THEN FALSE
    ELSE IsThrow(JSONparse(atob(GetProp(resp.json, K_content))))
\* C10: a get or save accessor served by the GitHub backend never throws.  A get
\* accessor whose request failed, whose file is absent or whose content is not JSON
\* returns the default of its kind; a save accessor returns true or false, and true
\* exactly when its PUT was sent and answered with success.
C10_RemoteAccessorsNeverRaise ==
    LET task == tasks[1]
    IN  (task.pc = "done" /\ task.backend = "github" /\ task.op \in GetOps \cup SaveOps)
        => /\ ~IsThrow(task.res)
           /\ task.op \in GetOps
                 => ((Failed(task.resps[1]) \/ Undecodable(task.resps[1]))
                        => task.res = GitHubDefault(KindOf(task.op)))
           /\ task.op \in SaveOps
                 => /\ task.res \in {Bool(TRUE), Bool(FALSE)}
                    /\ task.res = Bool(TRUE)
                          <=> (Len(task.resps) = 2 /\ ~Failed(task.resps[2]))

\* a get accessor has found content that is not JSON and returned the default
C10_Witness ==
    /\ tasks[1].pc = "done" /\ tasks[1].backend = "github" /\ tasks[1].op \in GetOps
    /\ Undecodable(tasks[1].resps[1])
    /\ tasks[1].res = GitHubDefault(KindOf(tasks[1].op))

\* C11: with the local backend selected, whatever the save accessors were given
\* before, a get accessor returns a value and never throws, also when the text stored
\* under its key is not JSON.
C11_LocalGetNeverRaises ==
    LET task == tasks[1]
    IN  (task.pc = "done" /\ task.backend = "local" /\ task.op \in GetOps)
        => ~IsThrow(task.res)

\* the defaults DataManager's own get accessors use when nothing is stored
LocalDefault(kind) ==
    CASE kind = "site" ->
            Obj(<<K_siteTitle, K_newsHeader>>, <<Str(S_NOARZ), Str(S_newsHeader)>>)
      [] kind = "social" -> SocialDefault
      [] kind = "admin" -> AdminDefault
      [] OTHER -> Undefined
\* nothing is stored for the call's document on the backend that served it
NothingStored(task) ==
    IF task.backend = "local"
    THEN \A key \in KeysOf(KindOf(task.op)) : localStorage[key] = Null
    ELSE /\ files[PathOf(KindOf(task.op))] = NoFile
         /\ Len(task.resps) = 1 /\ NotFound(task.resps[1])

\* C12: a get accessor of site settings, social links or admin settings, served by
\* either backend while nothing is stored for its document, returns the record of
\* hardcoded defaults for the kind's keys, the same on both backends.
C12_SettingsDefaults ==
    LET task == tasks[1]
    IN  (/\ task.pc = "done" /\ task.op \in GetOps /\ KindOf(task.op) # "news"
         /\ NothingStored(task))
        => task.res = LocalDefault(KindOf(task.op))

\* the three built-in items, with ids '1', '2', '3' in that order
IsSampleNews(x) ==
    /\ x.t = "array"
    /\ Len(x.a) = 3
    /\ GetProp(x.a[1], K_id) = Str(S_1)
    /\ GetProp(x.a[2], K_id) = Str(S_2)
    /\ GetProp(x.a[3], K_id) = Str(S_3)
C13_Step ==
    LET task == tasks'[1]
    IN  /\ (/\ tasks[1].pc # "done" /\ task.pc = "done"
            /\ task.op = "getNewsItems" /\ task.backend = "local"
            /\ localStorage["jjkNews"] = Null)
           => /\ IsSampleNews(task.res)
              /\ localStorage' = localStorage
        /\ (localStorage["jjkNews"] = Null /\ localStorage'["jjkNews"] # Null)
           => task.op = "saveNewsItems"
\* C13: on the local backend, while nothing has been written under 'jjkNews', a
\* getNewsItems call returns the three sample items with ids '1', '2', '3' in that
\* order and leaves localStorage as it was; only saveNewsItems ends this.
C13_SampleNewsUntilSaved == [][C13_Step]_vars

\* a second getNewsItems in a row has returned the sample items, nothing being stored
C13_Witness ==
    /\ prev.op = "getNewsItems" /\ prev.backend = "local" /\ IsSampleNews(prev.res)
    /\ tasks[1].op = "getNewsItems" /\ tasks[1].pc = "done" /\ tasks[1].backend = "local"
    /\ IsSampleNews(tasks[1].res)
    /\ localStorage["jjkNews"] = Null

Blocked(c) == tasks[c].pc \in {"awaitInit", "awaitEnsure"}
\* C14: once initialization has been started it completes, with isInitialized true and
\* its promise fulfilled, whatever the configuration and the answer to the probe; and
\* every call waiting for initialization is resumed.
C14_InitializationCompletes ==
    /\ (initRuns > 0) ~> (isInitialized /\ InitFulfilled)
    /\ \A c \in Callers : Blocked(c) ~> ~Blocked(c)

\* the probe was sent and answered, and every caller's call, begun before
\* initialization had completed, has been resumed
C14_Witness ==
    /\ isInitialized /\ probesSent = 1 /\ probing = 0
    /\ \A c \in Callers : tasks[c].waited /\ tasks[c].pc \in {"get", "put", "done"}

C15_Step ==
    /\ \A c \in Callers :
          /\ (tasks[c].backend = "none" /\ tasks'[c].backend # "none")
                => /\ isInitialized /\ InitFulfilled
                   /\ tasks'[c].backend = SelectedBackend
          /\ (tasks'[c].waited /\ tasks'[c].backend = "local") => ~useGitHub'
    /\ localStorage' # localStorage => isInitialized
    /\ files' # files => isInitialized
    /\ (fetches' > fetches /\ probesSent' = probesSent) => isInitialized
\* C15: an accessor call is handed to a backend, localStorage or the repository is
\* written, and a request other than the probe is sent, only when initialization has
\* completed, and the backend a call is handed to is the selected one; so no call
\* begun during the probe is served from localStorage when the probe succeeds.
C15_DispatchAfterInitialization == [][C15_Step]_vars

\* a saveNewsItems begun before the probe was answered has been written to the
\* repository after the probe succeeded, and localStorage is untouched
C15_Witness ==
    /\ probeAnswer.t = "response" /\ probeAnswer.ok
    /\ localStorage["jjkNews"] = Null
    /\ \E c \in Callers :
          /\ tasks[c].waited /\ tasks[c].op = "saveNewsItems"
          /\ tasks[c].backend = "github" /\ tasks[c].pc = "done"
          /\ tasks[c].res = Bool(TRUE)

\* the requests of the GitHubAPI accessor of the same name: one GET of the kind's
\* file, and for a save one PUT of the encoded document after it
SameNamedRequests(task) ==
    LET path == PathOf(KindOf(task.op))
    IN  /\ Len(task.reqs) <= (IF task.op \in GetOps THEN 1 ELSE 2)
        /\ \A i \in 1..Len(task.reqs) :
              /\ task.reqs[i].ep = "contents" /\ task.reqs[i].path = path
              /\ task.reqs[i].method = (IF i = 1 THEN "GET" ELSE "PUT")
        /\ Len(task.reqs) = 2
              => /\ GetProp(task.reqs[2].body, K_content) = btoa(JSONstringify(task.arg, 2))
                 /\ GetProp(task.reqs[2].body, K_message) = Str(MessageOf(KindOf(task.op)))
        /\ task.pc = "done" => Len(task.reqs) >= 1 /\ Len(task.resps) = Len(task.reqs)
C16_Step ==
    LET old == tasks[1]
        task == tasks'[1]
    IN  (isInitialized /\ task.op \in GetOps \cup SaveOps /\ task # old)
        => IF useGitHub
           THEN /\ task.backend \in {"none", "github"}
                /\ localStorage' = localStorage
                /\ task.backend = "github" => SameNamedRequests(task)
           ELSE /\ task.backend \in {"none", "local"}
                /\ fetches' = fetches /\ files' = files /\ task.reqs = <<>>
                /\ \A key \in LocalKeys \ KeysOf(KindOf(task.op)) :
                      localStorage'[key] = localStorage[key]
                /\ task.op \in GetOps => localStorage' = localStorage
                /\ (task.op \in GetOps /\ task.pc = "done")
                      => \E now \in Days :
                            task.res = LocalGet(KindOf(task.op), localStorage, now)
\* C16: once initialized, a call served by GitHub sends only the requests of the
\* same-named GitHubAPI accessor (one GET, and for a save at most one PUT, never a
\* repeated request) and leaves localStorage alone; a call served locally sends no
\* request, touches only the keys of its own kind, and a get returns what is stored at
\* the time of the call.
C16_SelectedBackendOnly == [][C16_Step]_vars

\* after a save that GitHub accepted, the next get has asked the repository again and
\* returned the saved value; localStorage is still empty
C16_Witness ==
    /\ prev.op \in SaveOps /\ prev.backend = "github" /\ prev.res = Bool(TRUE)
    /\ tasks[1].op \in GetOps /\ tasks[1].pc = "done" /\ tasks[1].backend = "github"
    /\ Len(tasks[1].reqs) = 1
    /\ tasks[1].res = prev.arg
    /\ \A key \in LocalKeys : localStorage[key] = Null

(***************************************************************************)
(* Properties of concurrent saves (SpecRace).                              *)
(***************************************************************************)
\* the sha the call's getFile returned, undefined when it returned null
ObservedSha(task) ==
    IF Failed(task.resps[1]) THEN Undefined ELSE GetProp(task.resps[1].json, K_sha)
\* the sha of the file now at the path, undefined when there is none
CurrentSha(path) == IF files[path] = NoFile THEN Undefined ELSE ShaOf(files[path].content)
Accepted(task) ==
    task.op \in SaveOps \cup {"saveFile"} /\ Len(task.resps) = 2 /\ ~Failed(task.resps[2])
\* the gets of c and d were both answered before either of their writes was
Overlapping(c, d) == c # d /\ d \notin writtenBefore[c] /\ c \notin writtenBefore[d]

C17_Step ==
    \A c \in Callers :
        LET old == tasks[c]
            new == tasks'[c]
        IN  /\ Len(new.reqs) <= 2
            /\ (old.pc = "put" /\ new.pc = "done")
                  => /\ GetProp(old.reqs[2].body, K_sha) = ObservedSha(old)
                     /\ Len(new.reqs) = 2
                     /\ CurrentSha(old.path) # ObservedSha(old)
                           => /\ Failed(new.resps[2])
                              /\ files' = files
                              /\ IF old.op = "saveFile" THEN IsThrow(new.res)
                                 ELSE new.res = Bool(FALSE)
                     /\ Accepted(new) => CurrentSha(old.path) = ObservedSha(old)
C17_AtMostOne ==
    \A c, d \in Callers :
        (Overlapping(c, d) /\ Accepted(tasks[c])) => ~Accepted(tasks[d])

====
